---- MODULE Spec2Model ----
(***************************************************************************)
(* Model of the graduation-detection and concurrent-enrichment engine of   *)
(* pump-fun-analytics (step1_enrich.py, config.py).                        *)
(*                                                                         *)
(* Number conventions.  TLC integers are 32 bit, so lamport amounts are    *)
(* counted in units of 850,000 lamports (0.001 % of the graduation         *)
(* threshold of 85,000,000,000 lamports).  Percentages computed by the     *)
(* code as floats are carried as integers: "milli" = thousandths of a      *)
(* percent before rounding, and the recorded grad_pct = hundredths of a    *)
(* percent (round(x, 2) of the code), so 5.0 % is 500 and 100.0 % is 10000.*)
(* Reserve inputs are chosen off the exact x.xx5 ties, where the result of *)
(* Python's round depends on the binary representation of the float.       *)
(***************************************************************************)
EXTENDS Integers, Sequences, FiniteSets, TLC

VARIABLES
    input,        \* the token list handed to enrich_all
    smoke_test,   \* enrich_all's flag
    tokens,       \* enrich_all's token list after the smoke-test truncation
    world,        \* world[i]: what the external sources answer for token i
    results,      \* enrich_all's result slots
    counters,     \* enrich_all's progress counters
    lockHeld,     \* the progress lock of enrich_all
    sem,          \* free permits of ALCHEMY_SEM, DEX_SEM, GECKO_SEM
    unit,         \* unit[i]: the unit of work (future) of token i
    main,         \* the thread running enrich_all
    second,       \* the result list of a second pass over the first pass's output
    files,        \* the files of data/ and output/ that main reads and writes
    blob,         \* account bytes handed to the decoder
    decoded,      \* what get_bonding_curve_info makes of blob
    call,         \* one rpc_call or http_get call of config.py
    all_slots,    \* the slot list handed to phase2_scan_blocks
    ledger,       \* ledger[k]: what getBlock answers for all_slots[k]
    checkpoint,   \* the checkpoint file of phase2_scan_blocks, None when absent
    scan,         \* the process running phase2_scan_blocks and its locals
    fetched       \* the slot indexes fetch_block was called for, in any run

vars == <<input, smoke_test, tokens, world, results, counters, lockHeld, sem, unit, main,
          second, files, blob, decoded, call, all_slots, ledger, checkpoint, scan, fetched>>

\* the state of enrich_all, and the state outside it
enrichVars == <<input, smoke_test, tokens, world, results, counters, lockHeld, sem, unit, main,
                second, files>>
\* the state of phase2_scan_blocks
scanVars == <<all_slots, ledger, checkpoint, scan, fetched>>
others == <<blob, decoded, call, scanVars>>

\* phase2_scan_blocks is not running
IdleScan ==
    /\ all_slots = << >> /\ ledger = << >>
    /\ checkpoint = [none |-> TRUE]
    /\ scan = [pc |-> "idle"]
    /\ fetched = {}

-----------------------------------------------------------------------------
(* Bounds of the model *)

\* largest batch handed to enrich_all
MaxTokens == 3
\* ThreadPoolExecutor(max_workers=50), scaled down
MaxWorkers == 2
\* permits of ALCHEMY_SEM (50: as many as workers), DEX_SEM (5), GECKO_SEM (3),
\* scaled down
AlchemyPermits == 2
DexPermits == 2
GeckoPermits == 1
\* tokens[:20] of the smoke test, scaled down
SmokeLimit == 2

-----------------------------------------------------------------------------
(* Python values *)

\* Python's None in a slot that otherwise holds a dict
None == [none |-> TRUE]
IsNone(v) == "none" \in DOMAIN v

\* None where a string is expected, and where a number is expected
NoneStr == "None"
NoneNum == 0 - 1

\* d.get(k, default)
Get(d, k, default) == IF k \in DOMAIN d THEN d[k] ELSE default

\* dict(d); d.update(u)
Update(d, u) == [k \in (DOMAIN d) \cup (DOMAIN u) |-> IF k \in DOMAIN u THEN u[k] ELSE d[k]]

Min(a, b) == IF a <= b THEN a ELSE b

\* a rounding that cuts the third decimal instead of rounding it
Round2Truncating(milli) == milli \div 10

\* round(x, 2) of a percentage given in thousandths, result in hundredths
\* (round half to even; inputs are chosen off the ties)
Round2(milli) ==
    LET q == milli \div 10
        r == milli % 10
    IN  IF r > 5 \/ (r = 5 /\ q % 2 = 1) THEN q + 1 ELSE q

-----------------------------------------------------------------------------
(* Program constants *)

\* 85_000_000_000 lamports, in units of 850,000 lamports
GRADUATION_SOL_LAMPORTS == 100000

\* 100.0 % in thousandths of a percent
Hundred == 100000

-----------------------------------------------------------------------------
(* derive_bonding_curve_pda: base58-decode the mint, hash the seeds.  The   *)
(* hash is kept symbolic: an injective image of the mint.                   *)

derive_bonding_curve_pda(mint) == "pda:" \o mint


-----------------------------------------------------------------------------
(* get_bonding_curve_info *)

\* the record returned when the mint cannot be base58-decoded
BcDeriveError ==
    [graduated |-> FALSE, complete |-> FALSE,
     real_sol_reserves |-> 0, virtual_sol_reserves |-> 0,
     grad_pct |-> 0, pda |-> NoneStr, error |-> "derive_error"]

\* a closed account taken as a graduation
BcAccountClosedGraduated(pda) ==
    [graduated |-> TRUE, complete |-> FALSE,
     real_sol_reserves |-> 0, virtual_sol_reserves |-> 0,
     grad_pct |-> 10000, pda |-> pda, account_closed |-> TRUE]

\* the record returned for a closed account or an unavailable chain query
BcAccountClosed(pda) ==
    [graduated |-> FALSE, complete |-> FALSE,
     real_sol_reserves |-> 0, virtual_sol_reserves |-> 0,
     grad_pct |-> 0, pda |-> pda, account_closed |-> TRUE]

BcDecodeError(pda) ==
    [graduated |-> FALSE, complete |-> FALSE,
     real_sol_reserves |-> 0, virtual_sol_reserves |-> 0,
     grad_pct |-> 0, pda |-> pda, error |-> "decode_error"]

BcTooShort(pda) ==
    [graduated |-> FALSE, complete |-> FALSE,
     real_sol_reserves |-> 0, virtual_sol_reserves |-> 0,
     grad_pct |-> 0, pda |-> pda, error |-> "data_too_short"]

\* grad_pct computed from the reserves alone
GradPctIgnoringComplete(complete, real_sol_reserves) ==
    Min((real_sol_reserves * 1000) \div (GRADUATION_SOL_LAMPORTS \div 100), Hundred)

\* grad_pct without the upper clamp
GradPctUnclamped(complete, real_sol_reserves) ==
    IF complete
    THEN Hundred
    ELSE (real_sol_reserves * 1000) \div (GRADUATION_SOL_LAMPORTS \div 100)

\* grad_pct before rounding, in thousandths of a percent
GradPct(complete, real_sol_reserves) ==
    IF complete
    THEN Hundred
    ELSE Min((real_sol_reserves * 1000) \div (GRADUATION_SOL_LAMPORTS \div 100), Hundred)

\* a decoder that does not carry the complete flag into graduated
BcDecodedFlagDropped(pda, raw) ==
    [graduated |-> FALSE, complete |-> raw.byte48 # 0,
     real_sol_reserves |-> raw.real_sol_reserves,
     virtual_sol_reserves |-> raw.virtual_sol_reserves,
     grad_pct |-> Round2(GradPct(raw.byte48 # 0, raw.real_sol_reserves)), pda |-> pda]

\* the account layout: fields at fixed offsets of a blob of raw.len bytes
BcDecoded(pda, raw) ==
    LET virtual_sol_reserves == raw.virtual_sol_reserves
        real_sol_reserves    == raw.real_sol_reserves
        complete             == raw.byte48 # 0
        graduated            == complete
        grad_pct             == GradPct(complete, real_sol_reserves)
    IN  [graduated |-> graduated, complete |-> complete,
         real_sol_reserves |-> real_sol_reserves,
         virtual_sol_reserves |-> virtual_sol_reserves,
         grad_pct |-> Round2(grad_pct), pda |-> pda]

\* the parse without the length test
ParseAccountUncheckedLength(pda, result) ==
    IF IsNone(result) \/ IsNone(result.value) THEN BcAccountClosed(pda)
    ELSE LET data == result.value.data IN
         IF ~data.b64_ok THEN BcDecodeError(pda)
         ELSE BcDecoded(pda, data)

\* the parse the module docstring describes: a closed account is a graduation
ParseAccountAsDocumented(pda, result) ==
    IF IsNone(result) \/ IsNone(result.value) THEN BcAccountClosedGraduated(pda)
    ELSE LET data == result.value.data IN
         IF ~data.b64_ok THEN BcDecodeError(pda)
         ELSE IF data.len < 49 THEN BcTooShort(pda)
         ELSE BcDecoded(pda, data)

\* the part of get_bonding_curve_info after the chain query returned result
ParseAccount(pda, result) ==
    IF IsNone(result) \/ IsNone(result.value) THEN BcAccountClosed(pda)
    ELSE LET data == result.value.data IN
         IF ~data.b64_ok THEN BcDecodeError(pda)
         ELSE IF data.len < 49 THEN BcTooShort(pda)
         ELSE BcDecoded(pda, data)

-----------------------------------------------------------------------------
(* fetch_dexscreener: data is what http_get returned *)

safe_float(val) == IF val = NoneNum THEN 0 ELSE val

RECURSIVE SelectSeqBy(_, _)
\* [p for p in pairs if p.get("dexId") == dexId]
SelectSeqBy(pairs, dexId) ==
    IF pairs = << >> THEN << >>
    ELSE LET rest == SelectSeqBy(Tail(pairs), dexId)
         IN  IF Head(pairs).dexId = dexId THEN <<Head(pairs)>> \o rest ELSE rest

\* an outcome of a call: a returned value or a raised exception
Returned(v) == [raised |-> FALSE, value |-> v]
Raised(e) == [raised |-> TRUE, error |-> e]

\* the fields taken from the first pair, whatever its exchange
DexFieldsOfFirstPair(pairs) ==
    LET raydium_pairs == SelectSeqBy(pairs, "raydium")
        best_pair == pairs[1]
    IN  [pair_address    |-> IF raydium_pairs # << >> THEN best_pair.pairAddress ELSE NoneStr,
         market_cap_usd  |-> safe_float(best_pair.marketCap),
         fdv             |-> safe_float(best_pair.fdv),
         liquidity_usd   |-> safe_float(best_pair.liquidity),
         price_usd       |-> safe_float(best_pair.priceUsd),
         pair_created_at |-> best_pair.pairCreatedAt]

DexFields(pairs) ==
    LET raydium_pairs == SelectSeqBy(pairs, "raydium")
        best_pair == IF raydium_pairs # << >> THEN raydium_pairs[1] ELSE pairs[1]
    IN  [pair_address    |-> IF raydium_pairs # << >> THEN best_pair.pairAddress ELSE NoneStr,
         market_cap_usd  |-> safe_float(best_pair.marketCap),
         fdv             |-> safe_float(best_pair.fdv),
         liquidity_usd   |-> safe_float(best_pair.liquidity),
         price_usd       |-> safe_float(best_pair.priceUsd),
         pair_created_at |-> best_pair.pairCreatedAt]

\* {} of Python
EmptyDict == [k \in {} |-> 0]

\* fetch_dexscreener calling data.get without testing data first
fetch_dexscreenerUnguarded(data) ==
    IF IsNone(data) THEN Raised("AttributeError")
    ELSE IF "json_list" \in DOMAIN data THEN Raised("AttributeError")
    ELSE IF "pairs" \notin DOMAIN data THEN Returned(EmptyDict)
    ELSE IF data.pairs = << >> THEN Returned(EmptyDict)
    ELSE Returned(DexFields(data.pairs))

fetch_dexscreener(data) ==
    IF IsNone(data) THEN Returned(EmptyDict)
    ELSE IF "json_list" \in DOMAIN data THEN Raised("AttributeError")
    ELSE IF "pairs" \notin DOMAIN data THEN Returned(EmptyDict)
    ELSE IF data.pairs = << >> THEN Returned(EmptyDict)
    ELSE Returned(DexFields(data.pairs))

-----------------------------------------------------------------------------
(* fetch_gecko_ohlcv: data is what http_get returned *)

\* hourly candles kept per token: after_launch[:24], scaled down
CandleLimit == 2

RECURSIVE AfterLaunch(_, _)
\* [c for c in candles if c[0] >= block_time]
AfterLaunch(candles, block_time) ==
    IF candles = << >> THEN << >>
    ELSE LET rest == AfterLaunch(Tail(candles), block_time)
         IN  IF Head(candles)[1] >= block_time THEN <<Head(candles)>> \o rest ELSE rest

Prefix(s, n) == SubSeq(s, 1, Min(Len(s), n))

\* the candles cut to the limit before the launch-time filter
fetch_gecko_ohlcvCutFirst(data, block_time) ==
    IF IsNone(data) THEN Returned(<< >>)
    ELSE IF "ohlcv_list" \notin DOMAIN data THEN Returned(<< >>)
    ELSE IF \E k \in DOMAIN data.ohlcv_list : data.ohlcv_list[k] = << >>
         THEN Raised("IndexError")
    ELSE Returned(AfterLaunch(Prefix(data.ohlcv_list, CandleLimit), block_time))

fetch_gecko_ohlcv(data, block_time) ==
    IF IsNone(data) THEN Returned(<< >>)
    ELSE IF "ohlcv_list" \notin DOMAIN data THEN Returned(<< >>)
    ELSE IF \E k \in DOMAIN data.ohlcv_list : data.ohlcv_list[k] = << >>
         THEN Raised("IndexError")
    ELSE Returned(Prefix(AfterLaunch(data.ohlcv_list, block_time), CandleLimit))

-----------------------------------------------------------------------------
(* enrich_token *)

\* dx.get("graduated") as a truth value
DexConfirms(dx) == Get(dx, "graduated", FALSE)

\* graduated and grad_pct after steps 1 and 2
FusedGraduated(bc, dx) == IF DexConfirms(dx) THEN TRUE ELSE Get(bc, "graduated", FALSE)
FusedGradPct(bc, dx) == IF DexConfirms(dx) THEN 10000 ELSE Get(bc, "grad_pct", 0)

\* step 3 is attempted: graduated and pair_address
WantsCandles(bc, dx) ==
    FusedGraduated(bc, dx) /\ Get(dx, "pair_address", NoneStr) # NoneStr

\* the status read from the percentage alone
StatusByPercent(graduated, grad_pct) ==
    IF grad_pct >= 10000 THEN "graduated"
    ELSE IF grad_pct >= 500 THEN "active"
    ELSE "dead"

\* status as enrich_token computes it (graduated, else the grad_pct threshold)
Status(graduated, grad_pct) ==
    IF graduated THEN "graduated"
    ELSE IF grad_pct >= 500 THEN "active"
    ELSE "dead"

\* a record that adds the new candles to those the token already carries
EnrichedRecordAppendingCandles(tok, bc, dx, hourly_prices_24h) ==
    Update(tok,
         [graduated            |-> FusedGraduated(bc, dx),
          complete             |-> Get(bc, "complete", FALSE),
          grad_pct             |-> FusedGradPct(bc, dx),
          real_sol_reserves    |-> Get(bc, "real_sol_reserves", 0),
          virtual_sol_reserves |-> Get(bc, "virtual_sol_reserves", 0),
          bonding_curve_pda    |-> Get(bc, "pda", NoneStr),
          pair_address         |-> Get(dx, "pair_address", NoneStr),
          market_cap_usd       |-> Get(dx, "market_cap_usd", 0),
          fdv                  |-> Get(dx, "fdv", 0),
          liquidity_usd        |-> Get(dx, "liquidity_usd", 0),
          price_usd            |-> Get(dx, "price_usd", 0),
          pair_created_at      |-> Get(dx, "pair_created_at", NoneNum),
          status               |-> Status(FusedGraduated(bc, dx), FusedGradPct(bc, dx)),
          hourly_prices_24h    |-> Get(tok, "hourly_prices_24h", << >>) \o hourly_prices_24h])

\* the record enrich_token returns
EnrichedRecord(tok, bc, dx, hourly_prices_24h) ==
    LET graduated == FusedGraduated(bc, dx)
        grad_pct  == FusedGradPct(bc, dx)
    IN  Update(tok,
         [graduated            |-> graduated,
          complete             |-> Get(bc, "complete", FALSE),
          grad_pct             |-> grad_pct,
          real_sol_reserves    |-> Get(bc, "real_sol_reserves", 0),
          virtual_sol_reserves |-> Get(bc, "virtual_sol_reserves", 0),
          bonding_curve_pda    |-> Get(bc, "pda", NoneStr),
          pair_address         |-> Get(dx, "pair_address", NoneStr),
          market_cap_usd       |-> Get(dx, "market_cap_usd", 0),
          fdv                  |-> Get(dx, "fdv", 0),
          liquidity_usd        |-> Get(dx, "liquidity_usd", 0),
          price_usd            |-> Get(dx, "price_usd", 0),
          pair_created_at      |-> Get(dx, "pair_created_at", NoneNum),
          status               |-> Status(graduated, grad_pct),
          hourly_prices_24h    |-> hourly_prices_24h])

\* a failure record that only attaches the error marker
FailureRecordUnmarked(tok, e) == Update(tok, [enrich_error |-> e])

\* the record enrich_all stores when the unit of work raised
FailureRecord(tok, e) ==
    Update(tok, [enrich_error |-> e, graduated |-> FALSE,
                 status |-> "dead", grad_pct |-> 0])


-----------------------------------------------------------------------------
(* The inputs: token lists and the answers of the external sources *)

\* the mints base58.b58decode accepts
IsBase58(mint) == mint \in {"Mint" \o ToString(i) : i \in 1..(MaxTokens + 1)}

Token(i, mint_ok) ==
    [mint |-> (IF mint_ok THEN "Mint" ELSE "0OIl") \o ToString(i),
     slot |-> 394635000 + i,
     block_time |-> 100]

\* account data: decodable or not, its length, the fields at offsets 16, 32, 48
Account(ok, len, vsr, rsr, b) ==
    [b64_ok |-> ok, len |-> len,
     virtual_sol_reserves |-> vsr, real_sol_reserves |-> rsr, byte48 |-> b]

\* real_sol_reserves values, in units of 850,000 lamports (0.001 %)
ReserveValues == {0, 1, 4989, 4994, 4996, 4999, 5000, 50000, 99994, 99996, 100000, 2000000}

\* what rpc_call returns for getAccountInfo
ChainAnswers ==
    {None, [value |-> None],
     [value |-> [data |-> Account(FALSE, 0, 0, 0, 0)]],
     [value |-> [data |-> Account(TRUE, 48, 30000, 50000, 0)]]}
    \cup {[value |-> [data |-> Account(TRUE, len, 30000, rsr, b)]] :
            len \in {49, 151}, rsr \in ReserveValues, b \in {0, 1, 255}}

RaydiumPair ==
    [dexId |-> "raydium", pairAddress |-> "PoolR", marketCap |-> 150000, fdv |-> 160000,
     liquidity |-> 30000, priceUsd |-> 15, pairCreatedAt |-> 1768870000]
RaydiumPair2 ==
    [dexId |-> "raydium", pairAddress |-> "PoolR2", marketCap |-> 90000, fdv |-> 95000,
     liquidity |-> NoneNum, priceUsd |-> 9, pairCreatedAt |-> 1768880000]
PumpPair ==
    [dexId |-> "pumpswap", pairAddress |-> "PoolP", marketCap |-> 42000, fdv |-> NoneNum,
     liquidity |-> 7000, priceUsd |-> 4, pairCreatedAt |-> NoneNum]

\* what http_get returns for the DexScreener lookup
DexAnswers ==
    {None, [json_list |-> TRUE], [schemaVersion |-> "1.0.0"], [pairs |-> << >>],
     [pairs |-> <<PumpPair>>], [pairs |-> <<RaydiumPair>>],
     [pairs |-> <<PumpPair, RaydiumPair>>], [pairs |-> <<RaydiumPair2, PumpPair, RaydiumPair>>]}

Candle(ts) == <<ts, 10, 12, 9, 11, 500>>

\* what http_get returns for the GeckoTerminal lookup
GeckoAnswers ==
    {None, [errors |-> "not found"],
     [ohlcv_list |-> << >>],
     [ohlcv_list |-> <<Candle(99), Candle(100), Candle(101), Candle(102)>>],
     [ohlcv_list |-> <<Candle(100), << >> >>]}

\* one token of a batch: whether its mint decodes, and its sources' answers
Cases ==
    [mint_ok : BOOLEAN, chain : ChainAnswers, dex : DexAnswers, gecko : GeckoAnswers]

\* the cases drawn for the tokens of larger batches
BatchCases ==
    {[mint_ok |-> TRUE,
      chain |-> [value |-> [data |-> Account(TRUE, 49, 30000, 100000, 1)]],
      dex |-> [pairs |-> <<RaydiumPair>>],
      gecko |-> [ohlcv_list |-> <<Candle(99), Candle(100), Candle(101), Candle(102)>>]],
     [mint_ok |-> TRUE,
      chain |-> [value |-> [data |-> Account(TRUE, 151, 30000, 50000, 0)]],
      dex |-> None, gecko |-> None],
     [mint_ok |-> TRUE,
      chain |-> [value |-> None],
      dex |-> [json_list |-> TRUE], gecko |-> None]}

\* a token whose mint does not decode, listed by provider A
InvalidMintCase ==
    [mint_ok |-> FALSE,
     chain |-> [value |-> [data |-> Account(TRUE, 49, 30000, 100000, 1)]],
     dex |-> [pairs |-> <<PumpPair>>], gecko |-> None]

\* batches of two with such a token before or after a token of BatchCases
MixedBatches ==
    {<<InvalidMintCase, c>> : c \in BatchCases} \cup {<<c, InvalidMintCase>> : c \in BatchCases}

Scenarios ==
    [1..1 -> Cases] \cup UNION {[1..n -> BatchCases] : n \in 2..MaxTokens} \cup MixedBatches

-----------------------------------------------------------------------------
(* enrich_all and the units of work *)

Idx == DOMAIN tokens

\* held: the gates the unit is inside a `with` block of
NewUnit == [pc |-> "new", bc |-> None, dx |-> None, outcome |-> None, held |-> {}]

\* the state when enrich_all is called on one of the batches of S
InitOn(S) ==
    /\ smoke_test \in BOOLEAN
    /\ \E sc \in S :
         /\ input = [i \in DOMAIN sc |-> Token(i, sc[i].mint_ok)]
         /\ world = [i \in DOMAIN sc |-> [chain |-> sc[i].chain, dex |-> sc[i].dex,
                                          gecko |-> sc[i].gecko]]
         /\ tokens = (IF smoke_test THEN Prefix(input, SmokeLimit) ELSE input)
         /\ results = [i \in DOMAIN tokens |-> None]
         /\ unit = [i \in DOMAIN tokens |-> NewUnit]
    /\ counters = [completed |-> 0, graduated |-> 0]
    /\ lockHeld = FALSE
    /\ sem = [alchemy |-> AlchemyPermits, dex |-> DexPermits, gecko |-> GeckoPermits]
    /\ main = [pc |-> "submit", yielded |-> {}, idx |-> 0]
    /\ second = << >>
    /\ files = [launches |-> input]
    /\ blob = << >>
    /\ decoded = None
    /\ call = [fn |-> "none"]
    /\ IdleScan

Init == InitOn(Scenarios)

\* the units a pool worker is running
Running == {i \in Idx : unit[i].pc \notin {"new", "queued", "done"}}

\* executor.submit for every token (the dict comprehension of enrich_all)
Submit ==
    /\ main.pc = "submit"
    /\ unit' = [i \in Idx |-> [unit[i] EXCEPT !.pc = "queued"]]
    /\ main' = [main EXCEPT !.pc = "collect"]
    /\ UNCHANGED <<others, files, second, input, smoke_test, tokens, world, results, counters, lockHeld, sem>>

\* a free pool worker takes the oldest queued unit and runs enrich_token up to
\* the chain gate, also for a mint that does not decode
StartQueryingAnyway(i) ==
    /\ unit[i].pc = "queued"
    /\ \A j \in Idx : j < i => unit[j].pc # "queued"
    /\ Cardinality(Running) < MaxWorkers
    /\ unit' = [unit EXCEPT ![i].pc = "chain_wait"]
    /\ UNCHANGED <<others, files, second, input, smoke_test, tokens, world, results, counters,
                   lockHeld, sem, main>>

\* a free pool worker takes the oldest queued unit and runs enrich_token up to
\* the chain gate: the PDA derivation of get_bonding_curve_info
Start(i) ==
    /\ unit[i].pc = "queued"
    /\ \A j \in Idx : j < i => unit[j].pc # "queued"
    /\ Cardinality(Running) < MaxWorkers
    /\ unit' = [unit EXCEPT ![i] =
                  IF IsBase58(tokens[i].mint)
                  THEN [@ EXCEPT !.pc = "chain_wait"]
                  ELSE [@ EXCEPT !.pc = "dex_wait", !.bc = BcDeriveError]]
    /\ UNCHANGED <<others, files, second, input, smoke_test, tokens, world, results, counters, lockHeld, sem, main>>

\* with ALCHEMY_SEM: entered
AcquireChain(i) ==
    /\ unit[i].pc = "chain_wait"
    /\ sem.alchemy > 0
    /\ sem' = [sem EXCEPT !.alchemy = @ - 1]
    /\ unit' = [unit EXCEPT ![i].pc = "chain_call", ![i].held = @ \cup {"alchemy"}]
    /\ UNCHANGED <<others, files, second, input, smoke_test, tokens, world, results, counters, lockHeld, main>>

\* rpc_call returns and the unit goes on without releasing the gate
ChainReturnKeepingGate(i) ==
    /\ unit[i].pc = "chain_call"
    /\ unit' = [unit EXCEPT ![i].pc = "dex_wait",
                            ![i].bc = ParseAccount(derive_bonding_curve_pda(tokens[i].mint),
                                                   world[i].chain)]
    /\ UNCHANGED <<others, files, second, input, smoke_test, tokens, world, results, counters, lockHeld,
                   sem, main>>

\* rpc_call returns, the gate is released, the account is parsed
ChainReturn(i) ==
    /\ unit[i].pc = "chain_call"
    /\ sem' = [sem EXCEPT !.alchemy = @ + 1]
    /\ unit' = [unit EXCEPT ![i].pc = "dex_wait",
                            ![i].held = @ \ {"alchemy"},
                            ![i].bc = ParseAccount(derive_bonding_curve_pda(tokens[i].mint),
                                                   world[i].chain)]
    /\ UNCHANGED <<others, files, second, input, smoke_test, tokens, world, results, counters, lockHeld, main>>

\* with DEX_SEM: entered
AcquireDex(i) ==
    /\ unit[i].pc = "dex_wait"
    /\ sem.dex > 0
    /\ sem' = [sem EXCEPT !.dex = @ - 1]
    /\ unit' = [unit EXCEPT ![i].pc = "dex_call", ![i].held = @ \cup {"dex"}]
    /\ UNCHANGED <<others, files, second, input, smoke_test, tokens, world, results, counters, lockHeld, main>>

\* the state of a unit after fetch_dexscreener gave dxo: the future fails, or
\* goes on to the candles, or completes with the enriched record
AfterDex(u, tok, dxo) ==
    IF dxo.raised
    THEN [u EXCEPT !.pc = "done", !.outcome = dxo]
    ELSE IF WantsCandles(u.bc, dxo.value)
    THEN [u EXCEPT !.pc = "gecko_wait", !.dx = dxo.value]
    ELSE [u EXCEPT !.pc = "done", !.dx = dxo.value,
                   !.outcome = Returned(EnrichedRecord(tok, u.bc, dxo.value, << >>))]

\* http_get returns and the unit goes on inside the `with DEX_SEM` block
DexReturnKeepingGate(i) ==
    /\ unit[i].pc = "dex_call"
    /\ unit' = [unit EXCEPT ![i] = AfterDex(@, tokens[i], fetch_dexscreener(world[i].dex))]
    /\ UNCHANGED <<others, files, second, input, smoke_test, tokens, world, results, counters,
                   lockHeld, sem, main>>

\* http_get returns, the gate is released, steps 2 and 3 of enrich_token
DexReturn(i) ==
    /\ unit[i].pc = "dex_call"
    /\ sem' = [sem EXCEPT !.dex = @ + 1]
    /\ unit' = [unit EXCEPT ![i] = AfterDex([unit[i] EXCEPT !.held = @ \ {"dex"}], tokens[i],
                                            fetch_dexscreener(world[i].dex))]
    /\ UNCHANGED <<others, files, second, input, smoke_test, tokens, world, results, counters, lockHeld, main>>

\* the request to provider B made without entering GECKO_SEM
AcquireGeckoUncounted(i) ==
    /\ unit[i].pc = "gecko_wait"
    /\ unit' = [unit EXCEPT ![i].pc = "gecko_call", ![i].held = @ \cup {"gecko"}]
    /\ UNCHANGED <<others, files, second, input, smoke_test, tokens, world, results, counters,
                   lockHeld, sem, main>>

\* with GECKO_SEM: entered
AcquireGecko(i) ==
    /\ unit[i].pc = "gecko_wait"
    /\ sem.gecko > 0
    /\ sem' = [sem EXCEPT !.gecko = @ - 1]
    /\ unit' = [unit EXCEPT ![i].pc = "gecko_call", ![i].held = @ \cup {"gecko"}]
    /\ UNCHANGED <<others, files, second, input, smoke_test, tokens, world, results, counters, lockHeld, main>>

\* the state of a unit after fetch_gecko_ohlcv gave co
AfterGecko(u, tok, co) ==
    IF co.raised
    THEN [u EXCEPT !.pc = "done", !.outcome = co]
    ELSE [u EXCEPT !.pc = "done",
                   !.outcome = Returned(EnrichedRecord(tok, u.bc, u.dx, co.value))]

\* tok.get("block_time") or 0
BlockTime(tok) ==
    LET t == Get(tok, "block_time", NoneNum) IN IF t = NoneNum THEN 0 ELSE t

\* http_get returns, the gate is released, enrich_token returns or raises
GeckoReturn(i) ==
    /\ unit[i].pc = "gecko_call"
    /\ sem' = [sem EXCEPT !.gecko = @ + 1]
    /\ unit' = [unit EXCEPT ![i] =
                  AfterGecko([unit[i] EXCEPT !.held = @ \ {"gecko"}], tokens[i],
                             fetch_gecko_ohlcv(world[i].gecko, BlockTime(tokens[i])))]
    /\ UNCHANGED <<others, files, second, input, smoke_test, tokens, world, results, counters, lockHeld, main>>

\* future.result() without the except clause: nothing is stored for the unit
EnrichedUnhandled(tok, outcome) ==
    IF outcome.raised THEN None ELSE outcome.value

\* future.result() with the except clause of enrich_all
Enriched(tok, outcome) ==
    IF outcome.raised THEN FailureRecord(tok, outcome.error) ELSE outcome.value

\* results filled in completion order: the record goes to the first free slot
StoreResultInCompletionOrder(res, idx, enriched) ==
    [res EXCEPT ![1 + Cardinality({k \in DOMAIN res : ~IsNone(res[k])})] = enriched]

\* results[idx] = enriched
StoreResult(res, idx, enriched) == [res EXCEPT ![idx] = enriched]

\* the record built in the token's own dict: enriched = tokens[idx]
MainTakeInPlace(i) ==
    /\ main.pc = "collect"
    /\ unit[i].pc = "done"
    /\ i \notin main.yielded
    /\ results' = StoreResult(results, i, Enriched(tokens[i], unit[i].outcome))
    /\ tokens' = [tokens EXCEPT ![i] = Enriched(tokens[i], unit[i].outcome)]
    /\ main' = [main EXCEPT !.pc = "lock", !.idx = i, !.yielded = @ \cup {i}]
    /\ UNCHANGED <<others, files, second, input, smoke_test, world, counters, lockHeld, sem,
                   unit>>

\* as_completed yields a finished future; its record is stored in its slot
MainTake(i) ==
    /\ main.pc = "collect"
    /\ unit[i].pc = "done"
    /\ i \notin main.yielded
    /\ results' = StoreResult(results, i, Enriched(tokens[i], unit[i].outcome))
    /\ main' = [main EXCEPT !.pc = "lock", !.idx = i, !.yielded = @ \cup {i}]
    /\ UNCHANGED <<others, files, second, input, smoke_test, tokens, world, counters, lockHeld, sem, unit>>

\* the counters when every completed record is counted as graduated
CountedIgnoringFlag(c, enriched) ==
    [completed |-> c.completed + 1, graduated |-> c.graduated + 1]

\* the counters after one more completed record
Counted(c, enriched) ==
    [completed |-> c.completed + 1,
     graduated |-> c.graduated + (IF Get(enriched, "graduated", FALSE) THEN 1 ELSE 0)]

\* the counters updated without entering the lock
MainCountWithoutLock ==
    /\ main.pc = "lock"
    /\ counters' = Counted(counters, results[main.idx])
    /\ main' = [main EXCEPT !.pc = "locked"]
    /\ UNCHANGED <<others, files, second, input, smoke_test, tokens, world, results, lockHeld,
                   sem, unit>>

\* with lock: the counters are updated
MainCount ==
    /\ main.pc = "lock"
    /\ ~lockHeld
    /\ lockHeld' = TRUE
    /\ counters' = Counted(counters, results[main.idx])
    /\ main' = [main EXCEPT !.pc = "locked"]
    /\ UNCHANGED <<others, files, second, input, smoke_test, tokens, world, results, sem, unit>>

\* the lock is released and the progress line printed; the smoke-test line
\* reads enriched['mint']; the loop ends when every future was yielded
MainPrint ==
    /\ main.pc = "locked"
    /\ lockHeld' = FALSE
    /\ main' = [main EXCEPT !.pc =
                  IF smoke_test /\ "mint" \notin DOMAIN results[main.idx] THEN "aborted"
                  ELSE IF main.yielded = Idx THEN "returned"
                  ELSE "collect"]
    /\ UNCHANGED <<others, files, second, input, smoke_test, tokens, world, results, counters, sem, unit>>

-----------------------------------------------------------------------------
(* enrich_token run start to finish on one token, as one function of the   *)
(* token and of its sources' answers                                       *)

EnrichToken(tok, env) ==
    LET bc  == IF IsBase58(tok.mint)
               THEN ParseAccount(derive_bonding_curve_pda(tok.mint), env.chain)
               ELSE BcDeriveError
        dxo == fetch_dexscreener(env.dex)
    IN  IF dxo.raised THEN dxo
        ELSE LET co == IF WantsCandles(bc, dxo.value)
                       THEN fetch_gecko_ohlcv(env.gecko, BlockTime(tok))
                       ELSE Returned(<< >>)
             IN  IF co.raised THEN co
                 ELSE Returned(EnrichedRecord(tok, bc, dxo.value, co.value))

\* enrich_all run once more, on the list it returned and with the sources
\* answering as before: each record is enriched again, a raising unit gets
\* the failure record
RunAgain ==
    /\ main.pc = "returned"
    /\ second = << >>
    /\ second' = [i \in DOMAIN results |->
                    Enriched(results[i], EnrichToken(results[i], world[i]))]
    /\ UNCHANGED <<others, files, input, smoke_test, tokens, world, results, counters, lockHeld,
                   sem, unit, main>>

\* sum(1 for t in tokens if t.get("status") == status)
CountStatus(toks, status) ==
    Cardinality({i \in DOMAIN toks : Get(toks[i], "status", NoneStr) = status})

\* the summary save_results computes
Summary(toks) ==
    [total_launched  |-> Len(toks),
     total_graduated |-> CountStatus(toks, "graduated"),
     total_active    |-> CountStatus(toks, "active"),
     total_dead      |-> CountStatus(toks, "dead")]

\* the files after save_results(toks): the launches file is overwritten, the
\* summary and the report (its Summary Statistics table) are written
save_results(toks) ==
    [launches |-> toks, summary |-> Summary(toks), report |-> Summary(toks)]

\* main writing its files in smoke-test mode as well
MainFinishAlwaysSaving ==
    /\ main.pc = "returned"
    /\ files' = save_results(results)
    /\ main' = [main EXCEPT !.pc = "exited"]
    /\ UNCHANGED <<others, second, input, smoke_test, tokens, world, results, counters, lockHeld,
                   sem, unit>>

\* main after enrich_all returned: the smoke test prints its count and
\* returns, the full run saves the results
MainFinish ==
    /\ main.pc = "returned"
    /\ files' = (IF smoke_test THEN files ELSE save_results(results))
    /\ main' = [main EXCEPT !.pc = "exited"]
    /\ UNCHANGED <<others, second, input, smoke_test, tokens, world, results, counters, lockHeld,
                   sem, unit>>

Next ==
    \/ Submit
    \/ \E i \in Idx : Start(i)
    \/ \E i \in Idx : AcquireChain(i)
    \/ \E i \in Idx : ChainReturn(i)
    \/ \E i \in Idx : AcquireDex(i)
    \/ \E i \in Idx : DexReturn(i)
    \/ \E i \in Idx : AcquireGecko(i)
    \/ \E i \in Idx : GeckoReturn(i)
    \/ \E i \in Idx : MainTake(i)
    \/ MainCount
    \/ MainPrint
    \/ RunAgain
    \/ MainFinish

Spec == Init /\ [][Next]_vars

\* the threads of the pool and the main thread are scheduled by the
\* operating system and every request returns or times out: a step that
\* stays possible is eventually taken
\* batches of every size, of tokens that go through all three gates and of
\* tokens whose unit raises
Batches == UNION {[1..n -> {c \in BatchCases : ~IsNone(c.dex)}] : n \in 1..MaxTokens}

InitBatch == InitOn(Batches)

FairSpec == InitBatch /\ [][Next]_vars /\ WF_vars(Next)


-----------------------------------------------------------------------------
(* Vocabulary of the properties *)

\* enrich_all has returned its result list
Done == main.pc = "returned"

\* the units whose enrich_token call ended / raised / returned a record
Finished == {i \in Idx : unit[i].pc = "done"}
FailedUnits == {i \in Finished : unit[i].outcome.raised}
FusedUnits == {i \in Finished : ~unit[i].outcome.raised}

\* the record enrich_token returned for unit i (i in FusedUnits)
Fused(i) == unit[i].outcome.value

\* the slots of the result list that hold a record
Filled == {i \in DOMAIN results : ~IsNone(results[i])}

\* the chain account of token i was read and decoded
AccountDecoded(i) ==
    /\ IsBase58(tokens[i].mint)
    /\ ~IsNone(world[i].chain)
    /\ ~IsNone(world[i].chain.value)
    /\ world[i].chain.value.data.b64_ok
    /\ world[i].chain.value.data.len >= 49

AccountOf(i) == world[i].chain.value.data

\* the chain account of token i is closed, or the chain query is unavailable
AccountAbsent(i) ==
    /\ IsBase58(tokens[i].mint)
    /\ (IsNone(world[i].chain) \/ IsNone(world[i].chain.value))

\* the pairs provider A lists for token i (none when it is unavailable)
PairsOf(i) ==
    IF IsNone(world[i].dex) \/ "pairs" \notin DOMAIN world[i].dex
    THEN << >> ELSE world[i].dex.pairs

\* provider A lists a pool of the expected exchange type for token i
RaydiumListed(i) == \E k \in DOMAIN PairsOf(i) : PairsOf(i)[k].dexId = "raydium"

\* the first such pool
FirstRaydium(i) ==
    PairsOf(i)[CHOOSE k \in DOMAIN PairsOf(i) :
                 /\ PairsOf(i)[k].dexId = "raydium"
                 /\ \A j \in 1..(k - 1) : PairsOf(i)[j].dexId # "raydium"]


-----------------------------------------------------------------------------
(* Properties *)

\* C1: enrich_all returns one record per token of the batch, and the record
\* in slot i carries the mint of the i-th input token, whatever the order in
\* which the units completed (a slot is right as soon as it is written).
C1_OrderPreserved ==
    /\ \A i \in Filled : i \in DOMAIN input /\ results[i].mint = input[i].mint
    /\ Done => /\ Filled = DOMAIN tokens
               /\ ~smoke_test => Len(results) = Len(input)

\* C1 witness: a batch of several tokens has returned and the unit of the
\* first token was the last one to complete.
C1_Witness ==
    /\ Done /\ ~smoke_test /\ Len(input) >= 3
    /\ main.idx = 1
    /\ C1_OrderPreserved

\* C2: when exactly one unit raised, enrich_all returns N records; the failing
\* token's record is dead, grad_pct 0, not graduated and carries the error
\* marker; every other record is what enrich_token yields for that token alone.
C2_FailureIsolated ==
    (Done /\ Cardinality(FailedUnits) = 1) =>
        /\ Filled = DOMAIN tokens
        /\ \A i \in FailedUnits :
              /\ Get(results[i], "status", "") = "dead"
              /\ Get(results[i], "grad_pct", NoneNum) = 0
              /\ Get(results[i], "graduated", TRUE) = FALSE
              /\ "enrich_error" \in DOMAIN results[i]
              /\ results[i].mint = tokens[i].mint
        /\ \A i \in Idx \ FailedUnits :
              /\ ~EnrichToken(tokens[i], world[i]).raised
              /\ results[i] = EnrichToken(tokens[i], world[i]).value
              /\ "enrich_error" \notin DOMAIN results[i]

\* C2 witness: a batch of three returned, exactly the second unit raised and
\* the others were enriched (one of them graduated).
C2_Witness ==
    /\ Done /\ Len(tokens) = 3
    /\ FailedUnits = {2}
    /\ results[2].status = "dead"
    /\ results[1].status = "graduated"
    /\ results[3].status = "active"

\* C3: enrich_all never aborts, in normal and in smoke-test mode and for any
\* set of failing units: when it returns, every slot holds a record.
C3_NeverAborts ==
    /\ main.pc # "aborted"
    /\ Done => /\ DOMAIN results = DOMAIN tokens
               /\ \A i \in DOMAIN results : ~IsNone(results[i]) /\ "status" \in DOMAIN results[i]

\* C3 witness: a smoke-test batch in which every unit raised has returned.
C3_Witness ==
    /\ Done /\ smoke_test /\ Len(tokens) >= 2
    /\ FailedUnits = Idx
    /\ \A i \in Idx : ~IsNone(results[i])

\* C4: when the chain account is present with complete set, the fused record
\* is graduated with status graduated and grad_pct 100, whatever the reserves
\* and whatever provider A returned.
C4_CompleteWins ==
    \A i \in FusedUnits :
        (AccountDecoded(i) /\ AccountOf(i).byte48 # 0) =>
            /\ Fused(i).status = "graduated"
            /\ Fused(i).graduated
            /\ Fused(i).grad_pct = 10000

\* C4 witness: a complete account with reserves 0 and provider A unavailable
\* was fused as graduated.
C4_Witness ==
    \E i \in FusedUnits :
        /\ AccountDecoded(i) /\ AccountOf(i).byte48 # 0
        /\ AccountOf(i).real_sol_reserves = 0
        /\ IsNone(world[i].dex)
        /\ Fused(i).status = "graduated"

\* C5: when the chain account is absent or not complete and provider A lists a
\* pool of the expected exchange type, the fused record is graduated with
\* status graduated, grad_pct 100 and that pool's market cap.
C5_DexConfirmsGraduation ==
    \A i \in FusedUnits :
        ((AccountAbsent(i) \/ (AccountDecoded(i) /\ AccountOf(i).byte48 = 0))
            /\ RaydiumListed(i)) =>
            /\ Fused(i).graduated
            /\ Fused(i).status = "graduated"
            /\ Fused(i).grad_pct = 10000
            /\ Fused(i).market_cap_usd = FirstRaydium(i).marketCap

ExactPct(i) ==
    IF AccountOf(i).real_sol_reserves >= GRADUATION_SOL_LAMPORTS
    THEN 100000
    ELSE AccountOf(i).real_sol_reserves

\* C7: when neither signal confirms graduation, status is active exactly when
\* min(realSolReserves / 85,000,000,000 * 100, 100) is at least 5 and dead
\* otherwise (5.0 gives active, 4.999 gives dead).
C7_ThresholdOnExactPct ==
    \A i \in FusedUnits :
        (AccountDecoded(i) /\ AccountOf(i).byte48 = 0 /\ ~RaydiumListed(i)) =>
            /\ Fused(i).status = (IF ExactPct(i) >= 5000 THEN "active" ELSE "dead")

C9_GraduatedIsHundred ==
    \A i \in Filled : results[i].status = "graduated" => results[i].grad_pct = 10000

\* C9 witness: enrich_all returned a list with a graduated record and a
\* worker-failure record.
C9_Witness ==
    /\ Done
    /\ \E i \in Filled : results[i].status = "graduated" /\ results[i].grad_pct = 10000
    /\ \E i \in Filled : "enrich_error" \in DOMAIN results[i]

\* C10: every record of the result list has 0 <= grad_pct <= 100, also for
\* reserves far above the threshold and on the failure paths.
C10_GradPctInRange ==
    \A i \in Filled : results[i].grad_pct >= 0 /\ results[i].grad_pct <= 10000

\* C10 witness: enrich_all returned the record of an account that is not
\* complete and holds twenty times the threshold, with grad_pct 100.
C10_Witness ==
    /\ Done
    /\ \E i \in Filled :
          /\ AccountDecoded(i) /\ AccountOf(i).byte48 = 0
          /\ AccountOf(i).real_sol_reserves = 2000000
          /\ results[i].grad_pct = 10000
          /\ results[i].status = "active"


-----------------------------------------------------------------------------
(* The account decoder on bytes: base64.b64decode gave the byte string blob *)
(* (blob[k + 1] is the byte at offset k), struct.unpack_from reads it.      *)

RECURSIVE unpack_from(_, _, _)
\* struct.unpack_from("<Q", raw, off): n bytes from offset off, little-endian
unpack_from(bytes, off, n) ==
    IF n = 0 THEN 0 ELSE bytes[off + 1] + 256 * unpack_from(bytes, off + 1, n - 1)

\* a decoder that takes the complete flag from the last byte of the account
UnpackedFromEnd(bytes) ==
    IF Len(bytes) < 49
    THEN Account(TRUE, Len(bytes), 0, 0, 0)
    ELSE Account(TRUE, Len(bytes), unpack_from(bytes, 16, 8), unpack_from(bytes, 32, 8),
                 bytes[Len(bytes)])

\* the fields get_bonding_curve_info reads from the decoded bytes (none are
\* read when the length check fails)
Unpacked(bytes) ==
    IF Len(bytes) < 49
    THEN Account(TRUE, Len(bytes), 0, 0, 0)
    ELSE Account(TRUE, Len(bytes), unpack_from(bytes, 16, 8), unpack_from(bytes, 32, 8),
                 bytes[48 + 1])

\* an account blob of len bytes: discriminator, the u64 fields, the flag, a tail
Blob(len, p) ==
    [k \in 1..len |->
        CASE k - 1 < 8   -> 23
          [] k - 1 = 16  -> p.v0
          [] k - 1 = 17  -> p.v1
          [] k - 1 = 24  -> p.t0
          [] k - 1 = 32  -> p.r0
          [] k - 1 = 33  -> p.r1
          [] k - 1 = 34  -> p.r2
          [] k - 1 = 48  -> p.c
          [] k - 1 > 48  -> p.tail
          [] OTHER       -> 0]

BlobLengths == {0, 8, 47, 48, 49, 50, 64}

Blobs ==
    {Blob(len, p) : len \in BlobLengths,
                    p \in [v0 : {0, 48}, v1 : {117}, t0 : {0, 77}, r0 : {0, 80, 160},
                           r1 : {0, 195, 134}, r2 : {0, 1}, c : {0, 1, 255}, tail : {0, 1}]}

\* enrich_all is not running
IdleEnrich ==
    /\ input = << >> /\ smoke_test = FALSE /\ tokens = << >> /\ world = << >>
    /\ results = << >> /\ unit = << >>
    /\ counters = [completed |-> 0, graduated |-> 0]
    /\ lockHeld = FALSE
    /\ sem = [alchemy |-> AlchemyPermits, dex |-> DexPermits, gecko |-> GeckoPermits]
    /\ main = [pc |-> "idle", yielded |-> {}, idx |-> 0]
    /\ second = << >>
    /\ files = [launches |-> << >>]

InitDecode ==
    /\ IdleEnrich
    /\ blob \in Blobs
    /\ decoded = None
    /\ call = [fn |-> "none"]
    /\ IdleScan

\* get_bonding_curve_info from the decoded bytes on
DecodeAccount ==
    /\ IsNone(decoded)
    /\ main.pc = "idle"
    /\ decoded' = ParseAccount("pda", [value |-> [data |-> Unpacked(blob)]])
    /\ UNCHANGED <<enrichVars, blob, call, scanVars>>

SpecDecode == InitDecode /\ [][DecodeAccount]_vars

\* C11: decoding succeeds on 49 bytes and on any longer account, and fails as
\* too short on 48 bytes or fewer; on success the fields are the bytes at the
\* fixed offsets 16, 32 and 48, whatever the length and the other bytes are.
C11_DecodeBoundary ==
    ~IsNone(decoded) =>
        /\ Len(blob) <= 48 =>
              /\ Get(decoded, "error", "") = "data_too_short"
              /\ ~decoded.graduated /\ decoded.grad_pct = 0
        /\ Len(blob) >= 49 =>
              /\ "error" \notin DOMAIN decoded
              /\ decoded.virtual_sol_reserves = blob[17] + 256 * blob[18]
              /\ decoded.real_sol_reserves = blob[33] + 256 * blob[34] + 65536 * blob[35]
              /\ decoded.complete = (blob[49] # 0)

\* C11 witness: an account of exactly 49 bytes with reserves of half the
\* threshold and the flag clear was decoded.
C11_Witness ==
    /\ ~IsNone(decoded)
    /\ Len(blob) = 49
    /\ "error" \notin DOMAIN decoded
    /\ decoded.real_sol_reserves = 50000
    /\ decoded.grad_pct = 5000
    /\ ~decoded.complete


-----------------------------------------------------------------------------
(* config.py: rpc_call and http_get.  Times are in milliseconds.  A call    *)
(* is [fn, attempt, pc, answers, log, result]: answers are what the server  *)
(* does on each request, log has one entry per request made, with the sleep *)
(* that followed it (0 when none did).                                      *)

\* retries=3 of both functions
retries == 3
\* delay=0.5 of http_get
delay == 500
\* time.sleep(5 * (attempt + 1)) on a 429
rate_limit_delay == 5000

RECURSIVE Pow2(_)
Pow2(n) == IF n = 0 THEN 1 ELSE 2 * Pow2(n - 1)

\* what one request can meet
RpcAnswers == {"exception", "error", "ok"}
HttpAnswers == {"exception", "429", "500", "200", "200_bad_json"}

Logged(c, ans, wait) == Append(c.log, [attempt |-> c.attempt, answer |-> ans, wait |-> wait])

\* the call returns v
Return(c, ans, v) ==
    [c EXCEPT !.pc = "done", !.result = v, !.log = Logged(c, ans, 0)]

\* the loop goes to its next round after sleeping wait; after the last round
\* the function returns None
NextRound(c, ans, wait) ==
    [c EXCEPT !.attempt = @ + 1,
              !.log = Logged(c, ans, wait),
              !.pc = IF c.attempt + 1 < retries THEN "loop" ELSE "done",
              !.result = NoneStr]

\* rpc_call backing off one second after every failure
rpc_attemptConstantBackoff(c, ans) ==
    CASE ans = "ok" -> Return(c, ans, "result")
      [] ans = "error" ->
            IF c.attempt < retries - 1
            THEN NextRound(c, ans, 1000)
            ELSE Return(c, ans, NoneStr)
      [] ans = "exception" ->
            NextRound(c, ans, IF c.attempt < retries - 1 THEN 1000 ELSE 0)

\* one round of rpc_call's loop
rpc_attempt(c, ans) ==
    CASE ans = "ok" -> Return(c, ans, "result")
      [] ans = "error" ->
            IF c.attempt < retries - 1
            THEN NextRound(c, ans, 1000 * Pow2(c.attempt))
            ELSE Return(c, ans, NoneStr)
      [] ans = "exception" ->
            NextRound(c, ans, IF c.attempt < retries - 1 THEN 1000 * Pow2(c.attempt) ELSE 0)

\* http_get letting the exception of r.json() escape
http_attemptJsonEscapes(c, ans) ==
    CASE ans = "429" -> NextRound(c, ans, rate_limit_delay * (c.attempt + 1))
      [] ans = "200" -> Return(c, ans, "json")
      [] ans = "200_bad_json" -> [c EXCEPT !.pc = "raised", !.log = Logged(c, ans, 0)]
      [] OTHER -> NextRound(c, ans, delay)

\* http_get backing off exponentially on a 429
http_attemptExponential(c, ans) ==
    CASE ans = "429" -> NextRound(c, ans, 1000 * Pow2(c.attempt))
      [] ans = "200" -> Return(c, ans, "json")
      [] OTHER -> NextRound(c, ans, delay)

\* one round of http_get's loop
http_attempt(c, ans) ==
    CASE ans = "429" -> NextRound(c, ans, rate_limit_delay * (c.attempt + 1))
      [] ans = "200" -> Return(c, ans, "json")
      [] OTHER -> NextRound(c, ans, delay)

NewCall(fn, answers) ==
    [fn |-> fn, attempt |-> 0, pc |-> "loop", answers |-> answers,
     log |-> << >>, result |-> NoneStr]

InitRetry ==
    /\ IdleEnrich
    /\ blob = << >>
    /\ decoded = None
    /\ call \in {NewCall("rpc_call", a) : a \in [1..retries -> RpcAnswers]}
          \cup {NewCall("http_get", a) : a \in [1..retries -> HttpAnswers]}
    /\ IdleScan

\* rpc_call makes a request and handles what comes back
RpcAttempt ==
    /\ call.fn = "rpc_call"
    /\ call.pc = "loop"
    /\ Len(call.log) < Len(call.answers)
    /\ call' = rpc_attempt(call, call.answers[Len(call.log) + 1])
    /\ UNCHANGED <<enrichVars, blob, decoded, scanVars>>

\* http_get makes a request and handles what comes back
HttpAttempt ==
    /\ call.fn = "http_get"
    /\ call.pc = "loop"
    /\ Len(call.log) < Len(call.answers)
    /\ call' = http_attempt(call, call.answers[Len(call.log) + 1])
    /\ UNCHANGED <<enrichVars, blob, decoded, scanVars>>

NextRetry == RpcAttempt \/ HttpAttempt

SpecRetry == InitRetry /\ [][NextRetry]_vars


\* a call of rpc_call or http_get is under way or over
Calling == call.fn # "none"
CallDone == Calling /\ call.pc = "done"

\* the answers that end a call with a payload
Success == {"ok", "200"}

\* the requests made so far
Requests == DOMAIN call.log

\* C12: rpc_call and http_get make at most 3 requests per call and none after
\* the first successful response; they never raise, and when every request
\* failed they return None.
C12_BoundedRetries ==
    Calling =>
        /\ Len(call.log) <= 3
        /\ call.pc \in {"loop", "done"}
        /\ \A k \in Requests : k < Len(call.log) => call.log[k].answer \notin Success
        /\ \A k \in Requests : call.log[k].answer = call.answers[k] /\ call.log[k].attempt = k - 1
        /\ call.pc = "loop" => \A k \in Requests : call.log[k].answer \notin Success
        /\ call.pc = "done" =>
              IF call.log[Len(call.log)].answer \in Success
              THEN call.result # NoneStr
              ELSE call.result = NoneStr /\ Len(call.log) = 3

\* C12 witness: an http_get call whose three requests failed (a timeout, a
\* 200 with a body that is no JSON, a 500) returned None.
C12_Witness ==
    /\ CallDone /\ call.fn = "http_get"
    /\ call.answers = <<"exception", "200_bad_json", "500">>
    /\ Len(call.log) = 3
    /\ call.result = NoneStr

C14_RateLimitBackoff ==
    (Calling /\ call.fn = "http_get") =>
        /\ \A k \in Requests :
              call.log[k].answer = "429" =>
                  /\ call.log[k].wait = 5000 * k
                  /\ k < 3 => (call.pc = "loop" \/ Len(call.log) > k)
                  /\ k = 3 => (call.pc = "done" /\ call.result = NoneStr)
        /\ Len(call.log) <= 3

\* C14 witness: three 429 in a row, waits of 5, 10 and 15 s, None returned.
C14_Witness ==
    /\ CallDone /\ call.fn = "http_get"
    /\ \A k \in 1..3 : call.log[k].answer = "429" /\ call.log[k].wait = 5000 * k
    /\ call.result = NoneStr


-----------------------------------------------------------------------------
(* Properties of the fusion with provider B and with unavailable sources *)

\* the record enrich_all stores for token i when provider B answers g
RecordWithGecko(i, g) ==
    Enriched(tokens[i], EnrichToken(tokens[i], [world[i] EXCEPT !.gecko = g]))

\* C15: provider B is asked for a token only when the token is graduated and
\* its pool address is known, and the status of the token's record is the same
\* whether provider B is unavailable or returned what it did (candles, an
\* empty list, a payload without the list, a malformed candle).
C15_CandlesNeverChangeStatus ==
    /\ \A i \in Idx :
          unit[i].pc \in {"gecko_wait", "gecko_call"} =>
              /\ FusedGraduated(unit[i].bc, unit[i].dx)
              /\ unit[i].dx.pair_address # NoneStr
    /\ \A i \in Filled : results[i].status = RecordWithGecko(i, None).status

C18_Idempotent ==
    second # << >> => second = results

\* C18 witness: the second pass ran over a list holding a graduated record
\* with candles and a worker-failure record.
C18_Witness ==
    /\ second # << >>
    /\ Len(second) = 3
    /\ \E i \in DOMAIN second : "enrich_error" \in DOMAIN second[i]
    /\ \E i \in DOMAIN second :
          second[i].status = "graduated" /\ Len(second[i].hourly_prices_24h) = 2


-----------------------------------------------------------------------------
(* Termination of enrich_all *)

\* C17: under fairness, every request returning, enrich_all returns for every
\* batch and every interleaving: no unit waits forever for a gate or for a
\* worker of the pool, and no batch is abandoned before its last unit.
C17_Terminates == <>Done

\* C17 witness: enrich_all returned for a batch larger than the pool whose
\* units all went through the chain gate and one of which went through the
\* gate of provider B.
C17_Witness ==
    /\ Done
    /\ ~smoke_test
    /\ Len(tokens) > MaxWorkers
    /\ \A i \in Idx : IsBase58(tokens[i].mint)
    /\ \E i \in FusedUnits : Fused(i).hourly_prices_24h # << >>


-----------------------------------------------------------------------------
(* The closed account, as documented and as coded *)

\* the chain query of unit i has returned
ChainAnswered(i) == unit[i].pc \notin {"new", "queued", "chain_wait", "chain_call"}

\* getAccountInfo answered token i with value null
AccountClosed(i) ==
    /\ IsBase58(tokens[i].mint)
    /\ ~IsNone(world[i].chain)
    /\ IsNone(world[i].chain.value)

-----------------------------------------------------------------------------
(* The smoke test *)

\* main has returned
Exited == main.pc = "exited"

\* C21: in smoke-test mode enrich_all works on the first min(SmokeLimit, N)
\* tokens of its input, in input order: only they get a unit of work and a
\* result slot, every stored record is the record of the input token of the
\* same index, and main leaves the files as it found them.
C21_SmokeTestPrefix ==
    smoke_test =>
        /\ Len(tokens) = Min(SmokeLimit, Len(input))
        /\ \A i \in 1..Len(tokens) : tokens[i] = input[i]
        /\ DOMAIN unit = 1..Min(SmokeLimit, Len(input))
        /\ DOMAIN results = 1..Min(SmokeLimit, Len(input))
        /\ \A i \in Filled : results[i].mint = input[i].mint
        /\ (Done \/ Exited) => Filled = 1..Min(SmokeLimit, Len(input))
        /\ files = [launches |-> input]

\* C21 witness: a smoke test on a list longer than the limit returned the
\* records of the first tokens only and main returned.
C21_Witness ==
    /\ smoke_test
    /\ Exited
    /\ Len(input) > SmokeLimit
    /\ Len(results) = SmokeLimit
    /\ \A i \in DOMAIN results : ~IsNone(results[i]) /\ results[i].mint = input[i].mint


-----------------------------------------------------------------------------
(* The three gates and the worker pool *)

\* the gate a unit is inside at each of its positions
GateAt(pc) ==
    CASE pc = "chain_call" -> {"alchemy"}
      [] pc = "dex_call"   -> {"dex"}
      [] pc = "gecko_call" -> {"gecko"}
      [] OTHER             -> {}

\* the units inside gate g
Holders(g) == {i \in Idx : g \in unit[i].held}

Capacity == [alchemy |-> AlchemyPermits, dex |-> DexPermits, gecko |-> GeckoPermits]

\* C22: a unit of work is inside at most one gate: it holds the gate of the
\* request it is making and nothing else, and holds none while it waits for a
\* gate or after its call ended, whether it returned or raised.
C22_GatesNeverNested ==
    \A i \in Idx :
        /\ Cardinality(unit[i].held) <= 1
        /\ unit[i].held = GateAt(unit[i].pc)

\* C22 witness: one unit is inside the gate of provider B while another,
\* whose call to provider A raised, holds no gate.
C22_Witness ==
    \E i, j \in Idx :
        /\ unit[i].held = {"gecko"}
        /\ j \in FailedUnits
        /\ unit[j].held = {}

\* C23: for each gate the units with a request in flight are its holders,
\* they are never more than its capacity, and its free permits plus its
\* holders make its capacity.
C23_GateCapacity ==
    \A g \in DOMAIN Capacity :
        /\ sem[g] >= 0
        /\ sem[g] + Cardinality(Holders(g)) = Capacity[g]
        /\ Cardinality({i \in Idx : g \in GateAt(unit[i].pc)}) <= Capacity[g]

\* C23 witness: the gate of provider B is full and a unit waits for it.
C23_Witness ==
    /\ sem.gecko = 0
    /\ Cardinality(Holders("gecko")) = GeckoPermits
    /\ \E i \in Idx : unit[i].pc = "gecko_wait"

\* every worker of the pool is waiting for the gate of provider A or inside it
PoolInProviderA ==
    /\ Cardinality(Running) = MaxWorkers
    /\ \A i \in Running : unit[i].pc \in {"dex_wait", "dex_call"}

\* C24: provider A cannot starve the chain query: in no reachable state is
\* every pool worker waiting for or inside the gate of provider A while a
\* token waits unstarted and the chain gate has a free permit.
C24_ChainNotStarved ==
    ~(/\ PoolInProviderA
      /\ \E i \in Idx : unit[i].pc = "queued"
      /\ sem.alchemy > 0)


-----------------------------------------------------------------------------
(* The progress lock *)

\* C25, as first stated: every write to a result slot and every increment of
\* a counter is made with the progress lock held.
C25_AllWritesUnderLock ==
    [][(results' # results \/ counters' # counters) => lockHeld']_vars

\* C25: every increment of a counter is made with the progress lock held; a
\* result slot is written by the thread that collects the futures, one slot
\* at a time, before it takes the lock; and the thread that holds the lock
\* does nothing but release it: it touches no gate, no unit and no slot.
C25_CountersUnderLock ==
    [][/\ counters' # counters => lockHeld'
       /\ results' # results =>
            /\ ~lockHeld /\ ~lockHeld'
            /\ main.pc = "collect" /\ main'.pc = "lock"
            /\ \A k \in DOMAIN results : k # main'.idx => results'[k] = results[k]
       /\ (lockHeld /\ main' # main) =>
            /\ ~lockHeld'
            /\ UNCHANGED <<sem, unit, results, counters>>
       /\ lockHeld' => main'.pc = "locked"]_vars

\* C25 witness: the lock is held, a counter was incremented under it and a
\* result slot was written before it, while a pool worker has a request to
\* provider A in flight.
C25_Witness ==
    /\ lockHeld
    /\ counters.completed = 2
    /\ ~IsNone(results[main.idx])
    /\ \E i \in Idx : unit[i].pc = "dex_call"


-----------------------------------------------------------------------------
(* The progress counters *)

\* the units whose record has been counted
CountedUnits == IF main.pc = "lock" THEN main.yielded \ {main.idx} ELSE main.yielded

\* C26: the completed counter is the number of finished units collected so
\* far, one per unit, and never more than N; the graduated counter is the
\* number of them whose record has graduated = true, so graduated <=
\* completed; when enrich_all returns completed = N and graduated is the
\* number of returned records with graduated = true.
C26_CountersExact ==
    /\ counters.completed = Cardinality(CountedUnits)
    /\ counters.completed <= Len(tokens)
    /\ CountedUnits \subseteq Finished
    /\ counters.graduated = Cardinality({i \in CountedUnits : results[i].graduated})
    /\ counters.graduated <= counters.completed
    /\ Done =>
         /\ counters.completed = Len(tokens)
         /\ counters.graduated =
               Cardinality({i \in DOMAIN results : results[i].graduated})

\* C26 witness: enrich_all returned three records, one of them graduated and
\* one a failure record, with the counters at 3 and 1.
C26_Witness ==
    /\ Done
    /\ counters = [completed |-> 3, graduated |-> 1]
    /\ \E i \in DOMAIN results : "enrich_error" \in DOMAIN results[i]


-----------------------------------------------------------------------------
(* Failures of the derivation and of the decoding *)

\* the mint of token i does not decode, or its account data does not decode
\* or is shorter than 49 bytes
DecodeFails(i) ==
    \/ ~IsBase58(tokens[i].mint)
    \/ /\ ~IsNone(world[i].chain)
       /\ ~IsNone(world[i].chain.value)
       /\ (~world[i].chain.value.data.b64_ok \/ world[i].chain.value.data.len < 49)

-----------------------------------------------------------------------------
(* The pair provider A's fields are taken from *)

\* the pair the claim names: the first raydium pair, else the first pair
BestPair(i) == IF RaydiumListed(i) THEN FirstRaydium(i) ELSE PairsOf(i)[1]

\* a number of provider A, absent read as 0
OrZero(v) == IF v = NoneNum THEN 0 ELSE v

\* C28: when provider A lists pairs, the market fields of the record are
\* those of the first raydium pair if there is one and of the first pair
\* otherwise (absent numbers read as 0), and pair_address is that raydium
\* pair's address, and null when no raydium pair is listed.
C28_BestPairFields ==
    \A i \in FusedUnits :
        PairsOf(i) # << >> =>
            /\ Fused(i).market_cap_usd = OrZero(BestPair(i).marketCap)
            /\ Fused(i).fdv = OrZero(BestPair(i).fdv)
            /\ Fused(i).liquidity_usd = OrZero(BestPair(i).liquidity)
            /\ Fused(i).price_usd = OrZero(BestPair(i).priceUsd)
            /\ Fused(i).pair_created_at = BestPair(i).pairCreatedAt
            /\ Fused(i).pair_address # NoneStr => RaydiumListed(i)
            /\ RaydiumListed(i) => Fused(i).pair_address = BestPair(i).pairAddress

\* C28 witness: provider A listed a pumpswap pair before a raydium pair and
\* the record carries the raydium pair's fields.
C28_Witness ==
    \E i \in FusedUnits :
        /\ Len(PairsOf(i)) = 2
        /\ PairsOf(i)[1].dexId = "pumpswap"
        /\ PairsOf(i)[2].dexId = "raydium"
        /\ Fused(i).market_cap_usd = 150000
        /\ Fused(i).pair_address = "PoolR"


-----------------------------------------------------------------------------
(* The status of the records and the summary *)

\* C29: every record enrich_all stores has a status among graduated, active
\* and dead, which is graduated exactly when the record's graduated flag is
\* true; the summary save_results writes therefore counts every record once:
\* total_graduated + total_active + total_dead = total_launched.
C29_StatusPartition ==
    /\ \A i \in Filled :
          /\ results[i].status \in {"graduated", "active", "dead"}
          /\ (results[i].status = "graduated") <=> results[i].graduated
    /\ "summary" \in DOMAIN files =>
          /\ files.summary.total_launched = Len(results)
          /\ files.summary.total_graduated + files.summary.total_active
                 + files.summary.total_dead = files.summary.total_launched
          /\ files.summary.total_graduated =
                Cardinality({i \in DOMAIN results : results[i].graduated})

\* C29 witness: the summary of a batch of three was written with one
\* graduated, one active and one dead token, the dead one a failure record.
C29_Witness ==
    /\ Exited
    /\ "summary" \in DOMAIN files
    /\ files.summary = [total_launched |-> 3, total_graduated |-> 1,
                        total_active |-> 1, total_dead |-> 1]
    /\ \E i \in DOMAIN results : "enrich_error" \in DOMAIN results[i]


-----------------------------------------------------------------------------
(* The token whose mint does not decode *)

\* C30: for a token whose mint does not decode no chain query is made and
\* the chain gate is never entered: its on-chain record is the derivation
\* error record.  The other tokens are untouched: the chain gate's permits
\* are held by units of decodable mints only, and the outcome of every
\* finished unit is what enrich_token gives for its own token and answers.
C30_InvalidMintIsLocal ==
    /\ \A i \in Idx :
          ~IsBase58(tokens[i].mint) =>
              /\ unit[i].pc \notin {"chain_wait", "chain_call"}
              /\ "alchemy" \notin unit[i].held
              /\ ChainAnswered(i) => unit[i].bc = BcDeriveError
    /\ sem.alchemy + Cardinality({j \in Idx : /\ IsBase58(tokens[j].mint)
                                             /\ unit[j].pc = "chain_call"}) = AlchemyPermits
    /\ \A j \in Finished : unit[j].outcome = EnrichToken(tokens[j], world[j])

\* C30 witness: in a batch of two, the first token's mint did not decode and
\* the second token was fused as graduated under its own derived address.
C30_Witness ==
    /\ Len(tokens) = 2
    /\ Finished = {1, 2}
    /\ ~IsBase58(tokens[1].mint)
    /\ unit[1].bc = BcDeriveError
    /\ 1 \in FusedUnits /\ Fused(1).market_cap_usd = 42000
    /\ 2 \in FusedUnits
    /\ Fused(2).status = "graduated"
    /\ Fused(2).bonding_curve_pda = derive_bonding_curve_pda(tokens[2].mint)


-----------------------------------------------------------------------------
(* The input list and its records *)

\* the fields enrich_token and the failure path of enrich_all write
EnrichmentFields ==
    {"graduated", "complete", "grad_pct", "real_sol_reserves", "virtual_sol_reserves",
     "bonding_curve_pda", "pair_address", "market_cap_usd", "fdv", "liquidity_usd",
     "price_usd", "pair_created_at", "status", "hourly_prices_24h", "enrich_error"}

\* record rec keeps every field of tok that is not an enrichment field
KeepsFields(rec, tok) ==
    \A k \in DOMAIN tok \ EnrichmentFields : k \in DOMAIN rec /\ rec[k] = tok[k]

\* C31: no step of enrich_all changes the list it was given or a token
\* record of it, and every record it stores, enriched or failure record,
\* keeps the token's fields that are not enrichment fields.
C31_InputUntouched ==
    [][/\ input' = input
       /\ tokens' = tokens
       /\ \A i \in DOMAIN results' :
             ~IsNone(results'[i]) => KeepsFields(results'[i], tokens[i])]_vars

\* C31 witness: enrich_all returned an enriched record and a failure record,
\* both with the slot and block_time of their token, the tokens being as
\* they were given.
C31_Witness ==
    /\ Done
    /\ tokens = [i \in DOMAIN tokens |-> Token(i, TRUE)]
    /\ \E i \in DOMAIN results :
          /\ "enrich_error" \in DOMAIN results[i]
          /\ results[i].slot = input[i].slot
          /\ "enrich_error" \notin DOMAIN tokens[i]
    /\ \E i \in DOMAIN results :
          /\ results[i].status = "graduated"
          /\ results[i].block_time = input[i].block_time
          /\ DOMAIN tokens[i] = {"mint", "slot", "block_time"}


-----------------------------------------------------------------------------
(* The candles of a record *)

\* the units that asked provider B and got a sequence back
CandleUnits ==
    {i \in FusedUnits : WantsCandles(unit[i].bc, unit[i].dx)}

\* the candles provider B lists for token i (none when it is unavailable or
\* its payload has no list)
CandlesOf(i) ==
    IF IsNone(world[i].gecko) \/ "ohlcv_list" \notin DOMAIN world[i].gecko
    THEN << >> ELSE world[i].gecko.ohlcv_list

\* the positions, in provider B's list, of the candles not older than the launch
LaterPositions(i) ==
    {k \in DOMAIN CandlesOf(i) : CandlesOf(i)[k][1] >= BlockTime(tokens[i])}

\* C32: the candles fetch_gecko_ohlcv returns for a token are the first
\* CandleLimit candles of provider B's list whose timestamp is not before
\* the token's launch time, in the provider's order: never more than
\* CandleLimit, and none when provider B is unavailable or its payload has
\* no candle list.
C32_CandlesBoundedFiltered ==
    \A i \in CandleUnits :
        LET got == Fused(i).hourly_prices_24h IN
        /\ Len(got) = Min(CandleLimit, Cardinality(LaterPositions(i)))
        /\ \A n \in DOMAIN got : got[n][1] >= BlockTime(tokens[i])
        /\ \A n \in DOMAIN got :
              \E k \in LaterPositions(i) :
                 /\ got[n] = CandlesOf(i)[k]
                 /\ Cardinality({j \in LaterPositions(i) : j < k}) = n - 1
        /\ (IsNone(world[i].gecko) \/ "ohlcv_list" \notin DOMAIN world[i].gecko)
              => got = << >>

\* C32 witness: provider B listed four candles, the first older than the
\* launch, and the record carries the second and the third.
C32_Witness ==
    \E i \in CandleUnits :
        /\ Len(CandlesOf(i)) = 4
        /\ CandlesOf(i)[1][1] < BlockTime(tokens[i])
        /\ Fused(i).hourly_prices_24h = <<CandlesOf(i)[2], CandlesOf(i)[3]>>


-----------------------------------------------------------------------------
(* phase2_scan_blocks of step1_fetch_launches.py: the block scan with its   *)
(* checkpoint file.  found_tokens, a dict keyed by mint, is the sequence of *)
(* its values in insertion order.  Slot indexes are counted from 1: the     *)
(* batch that starts at batch_start holds the indexes batch_start + 1 to    *)
(* batch_start + BATCH_SIZE.                                                *)

\* slots of the scanned range
MaxSlots == 5

\* BATCH_SIZE and CHECKPOINT_INTERVAL, scaled down
BatchSize == 2
CheckpointInterval == 4

\* times the scan is killed and started again
MaxRestarts == 1

\* extract_createv2_from_block: a block that could not be fetched gives
\* nothing, a block gives one token per transaction that creates a mint
extract_createv2_from_block(slot, block) ==
    IF IsNone(block) THEN << >>
    ELSE [k \in DOMAIN block.creates |-> [mint |-> block.creates[k], slot |-> slot]]

Mints(found) == {found[k].mint : k \in DOMAIN found}

\* found_tokens[tok["mint"]] = tok
PutToken(found, tok) ==
    IF tok.mint \in Mints(found)
    THEN [k \in DOMAIN found |-> IF found[k].mint = tok.mint THEN tok ELSE found[k]]
    ELSE Append(found, tok)

\* if mint not in found_tokens: found_tokens[mint] = tok
AddToken(found, tok) ==
    IF tok.mint \in Mints(found) THEN found ELSE Append(found, tok)

RECURSIVE PutTokens(_, _)
PutTokens(found, toks) ==
    IF toks = << >> THEN found
    ELSE PutTokens(PutToken(found, Head(toks)), Tail(toks))

RECURSIVE AddTokens(_, _)
AddTokens(found, toks) ==
    IF toks = << >> THEN found
    ELSE AddTokens(AddToken(found, Head(toks)), Tail(toks))

\* the locals of a run that starts; restarts counts the runs killed so far,
\* resumed_tokens remembers the tokens read from the checkpoint
NewScan(restarts) ==
    [pc |-> "start", batch_start |-> 0, scanned |-> 0, found_tokens |-> << >>,
     pending |-> {}, resumed_tokens |-> << >>, restarts |-> restarts]

\* what getBlock answers for a slot
BlockCases == {None, [creates |-> <<"A">>], [creates |-> <<"B", "A">>]}

InitScan ==
    /\ IdleEnrich
    /\ blob = << >> /\ decoded = None /\ call = [fn |-> "none"]
    /\ \E n \in 0..MaxSlots :
          /\ all_slots = [k \in 1..n |-> 394635000 + k]
          /\ ledger \in [1..n -> BlockCases]
    /\ checkpoint = None
    /\ scan = NewScan(0)
    /\ fetched = {}

total_slots == Len(all_slots)

\* a checkpoint file cut short: json.load raises on it
Truncated == [truncated |-> TRUE]

\* the checkpoint can be read
Readable(cp) == ~IsNone(cp) /\ cp # Truncated

\* scanned after the batch that starts at batch_start
ScannedAfter(batch_start) == Min(batch_start + BatchSize, total_slots)

\* the checkpoint is due after a batch that brings the count to scanned
CheckpointDue(scanned) ==
    scanned % CheckpointInterval < BatchSize \/ scanned >= total_slots

\* the run resuming one batch after the checkpoint
ScanStartSkippingBatch ==
    /\ scan.pc = "start"
    /\ scan' = IF ~Readable(checkpoint)
               THEN [scan EXCEPT !.pc = "loop"]
               ELSE [scan EXCEPT !.pc = "loop",
                                 !.batch_start = checkpoint.scanned + BatchSize,
                                 !.found_tokens = PutTokens(<< >>, checkpoint.tokens),
                                 !.resumed_tokens = checkpoint.tokens]
    /\ UNCHANGED <<enrichVars, blob, decoded, call, all_slots, ledger, checkpoint, fetched>>

\* the run starts: the checkpoint, if there is one, gives resume_from and the
\* tokens found so far
ScanStart ==
    /\ scan.pc = "start"
    /\ scan' = IF ~Readable(checkpoint)
               THEN [scan EXCEPT !.pc = "loop"]
               ELSE [scan EXCEPT !.pc = "loop",
                                 !.batch_start = checkpoint.scanned,
                                 !.found_tokens = PutTokens(<< >>, checkpoint.tokens),
                                 !.resumed_tokens = checkpoint.tokens]
    /\ UNCHANGED <<enrichVars, blob, decoded, call, all_slots, ledger, checkpoint, fetched>>

\* the next batch: fetch_block is submitted for each of its slots
ScanBatch ==
    /\ scan.pc = "loop"
    /\ scan.batch_start < total_slots
    /\ LET batch == (scan.batch_start + 1)..Min(scan.batch_start + BatchSize, total_slots)
       IN  /\ scan' = [scan EXCEPT !.pc = "collect", !.pending = batch]
           /\ fetched' = fetched \cup batch
    /\ UNCHANGED <<enrichVars, blob, decoded, call, all_slots, ledger, checkpoint>>

\* as_completed yields the block of slot index k: its new mints are added
ScanCollect(k) ==
    /\ scan.pc = "collect"
    /\ k \in scan.pending
    /\ scan' = [scan EXCEPT
                  !.pending = @ \ {k},
                  !.found_tokens =
                      AddTokens(@, extract_createv2_from_block(all_slots[k], ledger[k]))]
    /\ UNCHANGED <<enrichVars, blob, decoded, call, all_slots, ledger, checkpoint, fetched>>

\* the batch is over: scanned is set and the checkpoint written when due
ScanEndBatch ==
    /\ scan.pc = "collect"
    /\ scan.pending = {}
    /\ LET scanned == ScannedAfter(scan.batch_start)
       IN  /\ scan' = [scan EXCEPT !.pc = "loop", !.scanned = scanned,
                                   !.batch_start = @ + BatchSize]
           /\ checkpoint' =
                 IF CheckpointDue(scanned)
                 THEN [scanned |-> scanned, total |-> total_slots,
                       tokens |-> scan.found_tokens]
                 ELSE checkpoint
    /\ UNCHANGED <<enrichVars, blob, decoded, call, all_slots, ledger, fetched>>

\* the loop is over: the checkpoint is removed and the tokens returned
ScanFinish ==
    /\ scan.pc = "loop"
    /\ scan.batch_start >= total_slots
    /\ checkpoint' = None
    /\ scan' = [scan EXCEPT !.pc = "returned"]
    /\ UNCHANGED <<enrichVars, blob, decoded, call, all_slots, ledger, fetched>>

\* the process is killed during the scan and started again on the same slots
ScanRestart ==
    /\ scan.pc \in {"start", "loop", "collect"}
    /\ scan.restarts < MaxRestarts
    /\ scan' = NewScan(scan.restarts + 1)
    /\ UNCHANGED <<enrichVars, blob, decoded, call, all_slots, ledger, checkpoint, fetched>>

\* the process is killed while it writes the checkpoint, which open(..., "w")
\* has emptied, and started again
ScanRestartInWrite ==
    /\ scan.pc = "collect"
    /\ scan.pending = {}
    /\ CheckpointDue(ScannedAfter(scan.batch_start))
    /\ scan.restarts < MaxRestarts
    /\ checkpoint' = Truncated
    /\ scan' = NewScan(scan.restarts + 1)
    /\ UNCHANGED <<enrichVars, blob, decoded, call, all_slots, ledger, fetched>>

NextScan ==
    \/ ScanStart
    \/ ScanBatch
    \/ \E k \in DOMAIN all_slots : ScanCollect(k)
    \/ ScanEndBatch
    \/ ScanFinish
    \/ ScanRestart
    \/ ScanRestartInWrite

SpecScan == InitScan /\ [][NextScan]_vars

\* phase2_scan_blocks has returned scan.found_tokens
ScanReturned == scan.pc = "returned"

\* C33: a scan of a fixed slot list that is killed and started again loses
\* nothing: when the later run returns, fetch_block has been called for every
\* slot index in one run or the other, every token the run read from the
\* checkpoint is in the returned list, and the list holds one entry per mint.
\* During a run, the slots before batch_start have all been fetched, and so
\* have the slots a checkpoint counts as scanned; a run that finds the
\* checkpoint cut short starts from the first slot.
C33_ResumeLosesNothing ==
    /\ ScanReturned =>
          /\ fetched = 1..total_slots
          /\ \A n \in DOMAIN scan.resumed_tokens :
                \E k \in DOMAIN scan.found_tokens :
                    scan.found_tokens[k] = scan.resumed_tokens[n]
          /\ \A j, k \in DOMAIN scan.found_tokens :
                scan.found_tokens[j].mint = scan.found_tokens[k].mint => j = k
    /\ Readable(checkpoint) =>
          /\ 1..checkpoint.scanned \subseteq fetched
          /\ checkpoint.scanned <= total_slots
    /\ scan.pc \in {"loop", "collect"} =>
          1..Min(scan.batch_start, total_slots) \subseteq fetched

\* C33 witness: a run killed after a checkpoint that held a token was started
\* again in the middle of the slot list and returned.
C33_Witness ==
    /\ ScanReturned
    /\ scan.restarts = 1
    /\ scan.resumed_tokens # << >>
    /\ Len(scan.found_tokens) = 2
    /\ total_slots = MaxSlots
    /\ \E k \in DOMAIN ledger : IsNone(ledger[k])

=============================================================================
